---- MODULE Spec2Model ----
(***************************************************************************)
(* Model of runtime/jit/debugger_interface.cc: the GDB JIT interface of    *)
(* the runtime (the descriptor, the list of JITCodeEntry records, the      *)
(* list of DEXFileEntry records, the two timestamps, the two lookup maps   *)
(* and the memory-usage accumulator) and the functions that mutate them.   *)
(*                                                                         *)
(* Every function is a sequence of steps of one thread; a step is a        *)
(* contiguous range of source lines and is named after the function and    *)
(* the first line of the range.  The breakpoint function                   *)
(* __jit_debug_register_code is a step of its own, so that the state the   *)
(* debugger sees when the breakpoint fires is a state of the model.        *)
(*                                                                         *)
(* Heap records live in slots; operator new returns any free slot, so an   *)
(* address may be handed out again after it was freed.  Callers pass       *)
(* handles of allocated entries only: a freed or null handle is a          *)
(* dereference of invalid memory in the first line of the callee.          *)
(***************************************************************************)
EXTENDS Integers, Sequences, FiniteSets, TLC

\* ---------------------------------------------------------------- bounds
NumThreads == 2        \* runtime threads calling the interface
NumDexFiles == 3       \* distinct dex file header addresses
NumDexSlots == 3       \* heap slots for DEXFileEntry records
NumEntrySlots == 3     \* heap slots for JITCodeEntry records
NumCodeAddrs == 2      \* distinct code addresses
MaxSymfile == 2        \* largest symfile.size()
MaxStamp == 4          \* mutating calls are issued while the two timestamps sum below this
MaxMisuse == 1         \* calls that break a documented precondition

\* ------------------------------------------------------ program constants
NULL == 0                  \* nullptr
JIT_NOACTION == 0
JIT_REGISTER_FN == 1
JIT_UNREGISTER_FN == 2
SizeofJITCodeEntry == 40   \* sizeof(JITCodeEntry), LP64
SizeofPtr == 8             \* sizeof(void*), LP64

\* uint32_t and size_t arithmetic is modular.  A value is represented by the
\* integer congruent to it that lies nearest to zero (two's complement reading),
\* so ++, -- and the test against 0 are exact: 0 - 1 is the all-ones value,
\* written -1 here, and -1 + 1 is 0 again.  A negative number is a wrapped one.
Inc_by_two(x) == x + 2
Inc(x) == x + 1
Dec_keeps(x) == x
Dec(x) == x - 1
Wrapped(x) == x < 0
\* UINT32_MAX and the value before it; the order of the values as unsigned numbers
MaxU32 == Dec(0)
NearWrap == Dec(MaxU32)
U32Less(x, y) == IF (x < 0) = (y < 0) THEN x < y ELSE y < 0

Threads == 1..NumThreads
DexFiles == 1..NumDexFiles
DexSlots == 1..NumDexSlots
EntrySlots == 1..NumEntrySlots
CodeAddrs == 1..NumCodeAddrs
SymfileSizes == 0..MaxSymfile
NoThread == 0

VARIABLES
  \* debugger-visible globals
  jit_debug_descriptor,            \* __jit_debug_descriptor
  jit_debug_descriptor_timestamp,  \* __jit_debug_descriptor_timestamp
  art_debug_dexfiles,              \* __art_debug_dexfiles (head of the file list)
  art_debug_dexfiles_timestamp,    \* __art_debug_dexfiles_timestamp
  \* heap
  dex_heap,                        \* DEXFileEntry records by slot
  jit_heap,                        \* JITCodeEntry records (and their symfile copy) by slot
  \* process-private globals
  g_jit_debug_mem_usage,
  g_dexfile_entries,               \* unordered_map<const void*, DEXFileEntry*>
  g_jit_code_entries,              \* unordered_map<uintptr_t, JITCodeEntry*>
  native_debug_interface_lock,     \* Locks::native_debug_interface_lock_: owner or NoThread
  \* threads
  pc,                              \* position of each thread
  frame,                           \* arguments and locals of the call each thread is in
  kEnableDChecks,                  \* build flavour: are DCHECKs compiled in
  aborted,                         \* a CHECK/DCHECK failed: the process is gone
  \* history (not program state)
  misuse,                          \* calls so far that broke a documented precondition
  dexOrder,                        \* registered dex files, most recently registered first
  dexMutations,                    \* completed calls that registered or deregistered a file
  codeOrder,                       \* allocated code entries, most recently allocated first
  jitMutations,                    \* code entries allocated plus code entries freed
  attachedTo,                      \* code address -> entry it is attached to, or NULL
  everAttachedTo,                  \* entry -> the addresses attached to it since its creation
  notified                         \* thread -> calls of the breakpoint function by its current call

progVars == <<jit_debug_descriptor, jit_debug_descriptor_timestamp, art_debug_dexfiles,
              art_debug_dexfiles_timestamp, dex_heap, jit_heap, g_jit_debug_mem_usage,
              g_dexfile_entries, g_jit_code_entries>>
fileVars == <<art_debug_dexfiles, art_debug_dexfiles_timestamp, dex_heap, g_dexfile_entries>>
codeVars == <<jit_debug_descriptor, jit_debug_descriptor_timestamp, jit_heap,
              g_jit_debug_mem_usage, g_jit_code_entries>>
dexHist == <<dexOrder, dexMutations>>
jitHist == <<misuse, codeOrder, jitMutations, attachedTo, everAttachedTo>>
callHist == <<notified>>
histVars == <<dexHist, jitHist, callHist>>
vars == <<progVars, native_debug_interface_lock, pc, frame, kEnableDChecks, aborted, histVars>>

\* ------------------------------------------------------------- helpers
FreeDex == [alloc |-> FALSE, next_ |-> NULL, prev_ |-> NULL, dexfile_ |-> NULL]
FreeJit == [alloc |-> FALSE, symfile |-> FALSE, next_ |-> NULL, prev_ |-> NULL,
            symfile_size_ |-> 0, ref_count |-> 0]
NoFrame == [addr |-> NULL, entry |-> NULL, size |-> 0, ret |-> "", result |-> NULL]

\* unordered_map::emplace: inserts only when the key is absent
Emplace(m, k, v) ==
  IF k \in DOMAIN m THEN m ELSE [x \in DOMAIN m \cup {k} |-> IF x = k THEN v ELSE m[x]]
\* unordered_map::erase(key) / erase(iterator)
Erase(m, k) == [x \in DOMAIN m \ {k} |-> m[x]]
\* unordered_map::operator[]: inserts a value-initialised (null) mapping when absent
Subscript(m, k) == Emplace(m, k, NULL)

\* operator new: the heap is searched first-fit, so the lowest free slot is returned
\* (a freed address is handed out again by the next allocation that fits)
New(heap) == LET free == {x \in DOMAIN heap : ~heap[x].alloc}
             IN {x \in free : \A y \in free : x <= y}

Range(s) == {s[i] : i \in DOMAIN s}
Reverse(s) == [i \in 1..Len(s) |-> s[Len(s) + 1 - i]]
Cons(x, s) == <<x>> \o s
Without(s, x) == SelectSeq(s, LAMBDA y : y # x)

\* what a reader of raw memory sees following one link field from a record; the walk
\* gives up after one step more than there are records (a cycle shows as an overlong walk)
RECURSIVE WalkN(_, _, _, _)
WalkN(heap, from, field, fuel) ==
  IF from = NULL \/ fuel = 0 THEN <<>>
  ELSE <<from>> \o WalkN(heap, heap[from][field], field, fuel - 1)
Walk(heap, from, field) == WalkN(heap, from, field, Cardinality(DOMAIN heap) + 1)

Idle(t) == pc[t] = "idle"
Goto(t, l) == pc' = [pc EXCEPT ![t] = l]
Return(t) == /\ pc' = [pc EXCEPT ![t] = "idle"]
             /\ frame' = [frame EXCEPT ![t] = NoFrame]
             /\ notified' = [notified EXCEPT ![t] = 0]
\* a function called with the lock held returns to its caller: its frame is popped
ReturnToCaller(t) == /\ pc' = [pc EXCEPT ![t] = "Ret"]
                     /\ frame' = [frame EXCEPT ![t] = NoFrame]

\* the bounds on the length of a run: both timestamps only grow, and so does the
\* number of broken preconditions; a call that changes something is issued while
\* both are below their bound
Budget == /\ art_debug_dexfiles_timestamp + jit_debug_descriptor_timestamp < MaxStamp
          /\ misuse < MaxMisuse

Init ==
  /\ jit_debug_descriptor = [version_ |-> 1, action_flag_ |-> JIT_NOACTION,
                             relevant_entry_ |-> NULL, first_entry_ |-> NULL]
  /\ jit_debug_descriptor_timestamp = 0
  /\ art_debug_dexfiles = NULL
  /\ art_debug_dexfiles_timestamp = 0
  /\ dex_heap = [s \in DexSlots |-> FreeDex]
  /\ jit_heap = [s \in EntrySlots |-> FreeJit]
  /\ g_jit_debug_mem_usage = 0
  /\ g_dexfile_entries = <<>>
  /\ g_jit_code_entries = <<>>
  /\ native_debug_interface_lock = NoThread
  /\ pc = [t \in Threads |-> "idle"]
  /\ frame = [t \in Threads |-> NoFrame]
  /\ kEnableDChecks \in BOOLEAN
  /\ aborted = FALSE
  /\ misuse = 0
  /\ dexOrder = <<>>
  /\ dexMutations = 0
  /\ codeOrder = <<>>
  /\ jitMutations = 0
  /\ attachedTo = [a \in CodeAddrs |-> NULL]
  /\ everAttachedTo = [e \in EntrySlots |-> {}]
  /\ notified = [t \in Threads |-> 0]

\* A long-running process: the state after 2^31 - 1 registrations of a file, each
\* followed by its deregistration, and one CreateJITCodeEntry followed by the deletion
\* of its entry (longFile), or after 2^31 - 1 such creations and deletions and one
\* registration followed by its deregistration (~longFile).  Both lists are empty
\* again, the descriptor is the one the last deletion left, and one of the two
\* timestamps is two increments away from wrapping.
InitLongRun ==
  \E longFile \in BOOLEAN :
    /\ jit_debug_descriptor = [version_ |-> 1, action_flag_ |-> JIT_UNREGISTER_FN,
                               relevant_entry_ |-> 1, first_entry_ |-> NULL]
    /\ jit_debug_descriptor_timestamp = (IF longFile THEN 2 ELSE NearWrap)
    /\ art_debug_dexfiles = NULL
    /\ art_debug_dexfiles_timestamp = (IF longFile THEN NearWrap ELSE 2)
    /\ dex_heap = [s \in DexSlots |-> FreeDex]
    /\ jit_heap = [s \in EntrySlots |-> FreeJit]
    /\ g_jit_debug_mem_usage = 0
    /\ g_dexfile_entries = <<>>
    /\ g_jit_code_entries = <<>>
    /\ native_debug_interface_lock = NoThread
    /\ pc = [t \in Threads |-> "idle"]
    /\ frame = [t \in Threads |-> NoFrame]
    /\ kEnableDChecks \in BOOLEAN
    /\ aborted = FALSE
    /\ misuse = 0
    /\ dexOrder = <<>>
    /\ dexMutations = art_debug_dexfiles_timestamp
    /\ codeOrder = <<>>
    /\ jitMutations = jit_debug_descriptor_timestamp
    /\ attachedTo = [a \in CodeAddrs |-> NULL]
    /\ everAttachedTo = [e \in EntrySlots |-> {}]
    /\ notified = [t \in Threads |-> 0]

\* --------------------------------------------------- the lock (base/mutex.h)
MutexLock_unguarded(t) == native_debug_interface_lock' = t

\* MutexLock mu(self, lock): blocks until the lock is free, then owns it
MutexLock(t) == /\ native_debug_interface_lock = NoThread
                /\ native_debug_interface_lock' = t
MutexUnlock_forgets(t) == UNCHANGED native_debug_interface_lock

\* ~MutexLock at scope exit
MutexUnlock(t) == native_debug_interface_lock' = NoThread

\* ------------------------------------------------ RegisterDexFileForNative
\* the call is made: the thread arrives at line 94 and waits for the lock
\* (the argument is not read before the lock is held; it is bound there)
Call_RegisterDexFileForNative(t) ==
  /\ ~aborted /\ Idle(t)
  /\ Budget
  /\ Goto(t, "Reg_94")
  /\ UNCHANGED <<progVars, native_debug_interface_lock, frame, kEnableDChecks, aborted,
                 histVars>>

\* line 94: the lock is acquired
RegisterDexFileForNative_94(t, dexfile_header) ==
  /\ ~aborted /\ pc[t] = "Reg_94"
  /\ MutexLock(t)
  /\ Goto(t, "Reg_95")
  /\ frame' = [frame EXCEPT ![t].addr = dexfile_header]
  /\ UNCHANGED <<progVars, kEnableDChecks, aborted, histVars>>

IsRegistered_never(dexfile_header) == FALSE

\* line 95: g_dexfile_entries.count(dexfile_header) != 0
IsRegistered(dexfile_header) == dexfile_header \in DOMAIN g_dexfile_entries

\* lines 95-100: the count() test, the allocation, the entry's own fields
RegisterDexFileForNative_95(t) ==
  /\ ~aborted /\ pc[t] = "Reg_95"
  /\ IF ~IsRegistered(frame[t].addr)
     THEN \E s \in New(dex_heap) :
            /\ dex_heap' = [dex_heap EXCEPT ![s] =
                 [alloc |-> TRUE, dexfile_ |-> frame[t].addr, prev_ |-> NULL,
                  next_ |-> art_debug_dexfiles]]
            /\ frame' = [frame EXCEPT ![t].entry = s]
            /\ Goto(t, "Reg_101")
     ELSE /\ Goto(t, "Reg_108")
          /\ UNCHANGED <<dex_heap, frame>>
  /\ UNCHANGED <<codeVars, art_debug_dexfiles, art_debug_dexfiles_timestamp,
                 g_dexfile_entries, native_debug_interface_lock, kEnableDChecks,
                 aborted, histVars>>

RegisterDexFileForNative_101_wrong_stamp(t) ==
  LET entry == frame[t].entry
      nxt == dex_heap[entry].next_
  IN /\ ~aborted /\ pc[t] = "Reg_101"
     /\ dex_heap' = IF nxt # NULL THEN [dex_heap EXCEPT ![nxt].prev_ = entry] ELSE dex_heap
     /\ art_debug_dexfiles' = entry
     /\ jit_debug_descriptor_timestamp' = Inc(jit_debug_descriptor_timestamp)
     /\ g_dexfile_entries' = Emplace(g_dexfile_entries, frame[t].addr, entry)
     /\ Goto(t, "Reg_108")
     /\ UNCHANGED <<jit_debug_descriptor, jit_heap, g_jit_debug_mem_usage, g_jit_code_entries,
                    art_debug_dexfiles_timestamp, native_debug_interface_lock, frame,
                    kEnableDChecks, aborted, histVars>>

\* lines 101-106: back link of the old head, new head, timestamp, index
RegisterDexFileForNative_101(t) ==
  LET entry == frame[t].entry
      nxt == dex_heap[entry].next_
  IN /\ ~aborted /\ pc[t] = "Reg_101"
     /\ dex_heap' = IF nxt # NULL THEN [dex_heap EXCEPT ![nxt].prev_ = entry] ELSE dex_heap
     /\ art_debug_dexfiles' = entry
     /\ art_debug_dexfiles_timestamp' = Inc(art_debug_dexfiles_timestamp)
     /\ g_dexfile_entries' = Emplace(g_dexfile_entries, frame[t].addr, entry)
     /\ Goto(t, "Reg_108")
     /\ UNCHANGED <<codeVars, native_debug_interface_lock, frame, kEnableDChecks, aborted,
                    histVars>>

\* line 108: the scope ends, the lock is released, the call returns.
\* History: the call is over; it registered the file unless the file was registered.
RegisterDexFileForNative_108(t) ==
  LET known == frame[t].addr \in Range(dexOrder)
  IN /\ ~aborted /\ pc[t] = "Reg_108"
     /\ MutexUnlock(t)
     /\ Return(t)
     /\ dexOrder' = IF known THEN dexOrder ELSE Cons(frame[t].addr, dexOrder)
     /\ dexMutations' = IF known THEN dexMutations ELSE dexMutations + 1
     /\ UNCHANGED <<progVars, kEnableDChecks, aborted, jitHist>>

\* ---------------------------------------------- DeregisterDexFileForNative
Call_DeregisterDexFileForNative(t) ==
  /\ ~aborted /\ Idle(t)
  /\ Budget
  /\ Goto(t, "Dereg_111")
  /\ UNCHANGED <<progVars, native_debug_interface_lock, frame, kEnableDChecks, aborted,
                 histVars>>

\* line 111: the lock is acquired
DeregisterDexFileForNative_111(t, dexfile_header) ==
  /\ ~aborted /\ pc[t] = "Dereg_111"
  /\ MutexLock(t)
  /\ Goto(t, "Dereg_112")
  /\ frame' = [frame EXCEPT ![t].addr = dexfile_header]
  /\ UNCHANGED <<progVars, kEnableDChecks, aborted, histVars>>

DeregisterDexFileForNative_112_stamps(t) ==
  /\ ~aborted /\ pc[t] = "Dereg_112"
  /\ art_debug_dexfiles_timestamp' = Inc(art_debug_dexfiles_timestamp)
  /\ IF frame[t].addr \in DOMAIN g_dexfile_entries
     THEN /\ frame' = [frame EXCEPT ![t].entry = g_dexfile_entries[frame[t].addr]]
          /\ Goto(t, "Dereg_117")
     ELSE /\ Goto(t, "Dereg_129")
          /\ UNCHANGED frame
  /\ UNCHANGED <<codeVars, art_debug_dexfiles, dex_heap, g_dexfile_entries,
                 native_debug_interface_lock, kEnableDChecks, aborted, histVars>>

\* lines 112-116: find() and the test against end()
DeregisterDexFileForNative_112(t) ==
  /\ ~aborted /\ pc[t] = "Dereg_112"
  /\ IF frame[t].addr \in DOMAIN g_dexfile_entries
     THEN /\ frame' = [frame EXCEPT ![t].entry = g_dexfile_entries[frame[t].addr]]
          /\ Goto(t, "Dereg_117")
     ELSE /\ Goto(t, "Dereg_129")
          /\ UNCHANGED frame
  /\ UNCHANGED <<progVars, native_debug_interface_lock, kEnableDChecks, aborted, histVars>>

DexUnlink_forward_only(heap, entry) ==
  LET prv == heap[entry].prev_
      nxt == heap[entry].next_
  IN IF prv # NULL THEN [heap EXCEPT ![prv].next_ = nxt] ELSE heap

\* lines 117-124, the records: the neighbours are linked to each other
DexUnlink(heap, entry) ==
  LET prv == heap[entry].prev_
      nxt == heap[entry].next_
      h1 == IF prv # NULL THEN [heap EXCEPT ![prv].next_ = nxt] ELSE heap
  IN IF nxt # NULL THEN [h1 EXCEPT ![nxt].prev_ = prv] ELSE h1

\* lines 117-127: unlink, timestamp, delete, erase
DeregisterDexFileForNative_117(t) ==
  LET entry == frame[t].entry
  IN /\ ~aborted /\ pc[t] = "Dereg_117"
     /\ art_debug_dexfiles' = IF dex_heap[entry].prev_ # NULL THEN art_debug_dexfiles
                                                              ELSE dex_heap[entry].next_
     /\ art_debug_dexfiles_timestamp' = Inc(art_debug_dexfiles_timestamp)
     /\ dex_heap' = [DexUnlink(dex_heap, entry) EXCEPT ![entry] = FreeDex]
     /\ g_dexfile_entries' = Erase(g_dexfile_entries, frame[t].addr)
     /\ Goto(t, "Dereg_129")
     /\ UNCHANGED <<codeVars, native_debug_interface_lock, frame, kEnableDChecks, aborted,
                    histVars>>

\* line 129: the scope ends, the lock is released, the call returns.
\* History: the call is over; it deregistered the file if the file was registered.
DeregisterDexFileForNative_129(t) ==
  LET known == frame[t].addr \in Range(dexOrder)
  IN /\ ~aborted /\ pc[t] = "Dereg_129"
     /\ MutexUnlock(t)
     /\ Return(t)
     /\ dexOrder' = Without(dexOrder, frame[t].addr)
     /\ dexMutations' = IF known THEN dexMutations + 1 ELSE dexMutations
     /\ UNCHANGED <<progVars, kEnableDChecks, aborted, jitHist>>

\* ------------------------------------------------------- callers of the JIT side
\* CreateJITCodeEntry, DeleteJITCodeEntry, IncrementJITCodeEntryRefcount,
\* DecrementJITCodeEntryRefcount, GetJITCodeEntry and GetJITCodeEntryMemUsage take no
\* lock themselves; the globals they touch are GUARDED_BY the lock, and their callers
\* hold it around the call.
JitCaller_Lock(t) == MutexLock(t)
JitCaller_Unlock(t) == MutexUnlock(t)

\* the call has returned to the caller, which releases the lock
JitCaller_Return(t) ==
  /\ ~aborted /\ pc[t] = "Ret"
  /\ JitCaller_Unlock(t)
  /\ Return(t)
  /\ UNCHANGED <<progVars, kEnableDChecks, aborted, dexHist, jitHist>>

\* a CHECK or DCHECK fails: LOG(FATAL) ends the process where it stands
Abort == aborted' = TRUE

\* __jit_debug_register_code, called through __jit_debug_register_code_ptr: empty
jit_debug_register_code == UNCHANGED progVars

\* ------------------------------------------------------- CreateJITCodeEntry
Call_CreateJITCodeEntry(t, size) ==
  /\ ~aborted /\ Idle(t)
  /\ Budget
  /\ New(jit_heap) # {}
  /\ JitCaller_Lock(t)
  /\ Goto(t, "Create_132")
  /\ frame' = [frame EXCEPT ![t].size = size]
  /\ UNCHANGED <<progVars, kEnableDChecks, aborted, histVars>>

\* lines 132-145: the DCHECK, the copy of the symfile, the entry and its own fields.
\* History: an entry is allocated; an empty symfile breaks the precondition.
CreateJITCodeEntry_132(t) ==
  /\ ~aborted /\ pc[t] = "Create_132"
  /\ IF kEnableDChecks /\ frame[t].size = 0
     THEN /\ Abort
          /\ UNCHANGED <<jit_heap, frame, pc, jitHist>>
     ELSE /\ \E s \in New(jit_heap) :
               /\ jit_heap' = [jit_heap EXCEPT ![s] =
                    [alloc |-> TRUE, symfile |-> TRUE, symfile_size_ |-> frame[t].size,
                     prev_ |-> NULL, ref_count |-> 0,
                     next_ |-> jit_debug_descriptor.first_entry_]]
               /\ frame' = [frame EXCEPT ![t].entry = s]
               /\ everAttachedTo' = [everAttachedTo EXCEPT ![s] = {}]
               /\ codeOrder' = Cons(s, codeOrder)
          /\ jitMutations' = jitMutations + 1
          /\ misuse' = IF frame[t].size = 0 THEN misuse + 1 ELSE misuse
          /\ Goto(t, "Create_146")
          /\ UNCHANGED <<aborted, attachedTo>>
  /\ UNCHANGED <<fileVars, jit_debug_descriptor, jit_debug_descriptor_timestamp,
                 g_jit_debug_mem_usage, g_jit_code_entries, native_debug_interface_lock,
                 kEnableDChecks, dexHist, callHist>>

\* lines 149 and 169: sizeof(JITCodeEntry) + entry->symfile_size_
CreatedBytes(entry) == SizeofJITCodeEntry + jit_heap[entry].symfile_size_

DeletedBytes_record_only(entry) == SizeofJITCodeEntry

DeletedBytes(entry) == SizeofJITCodeEntry + jit_heap[entry].symfile_size_

DescriptorOnCreate_bumps_version(entry) ==
  [jit_debug_descriptor EXCEPT
     !.version_ = @ + 1,
     !.first_entry_ = entry, !.relevant_entry_ = entry, !.action_flag_ = JIT_REGISTER_FN]

\* lines 150-152
DescriptorOnCreate(entry) ==
  [jit_debug_descriptor EXCEPT
     !.first_entry_ = entry, !.relevant_entry_ = entry, !.action_flag_ = JIT_REGISTER_FN]

DescriptorOnDelete_stale(entry) ==
  [jit_debug_descriptor EXCEPT
     !.first_entry_ = IF jit_heap[entry].prev_ # NULL THEN @ ELSE jit_heap[entry].next_,
     !.action_flag_ = JIT_UNREGISTER_FN]

\* lines 159-163 (the head) and 170-171
DescriptorOnDelete(entry) ==
  [jit_debug_descriptor EXCEPT
     !.first_entry_ = IF jit_heap[entry].prev_ # NULL THEN @ ELSE jit_heap[entry].next_,
     !.relevant_entry_ = entry, !.action_flag_ = JIT_UNREGISTER_FN]

\* lines 146-153: back link of the old head, accounting, descriptor, timestamp
CreateJITCodeEntry_146(t) ==
  LET entry == frame[t].entry
      nxt == jit_heap[entry].next_
  IN /\ ~aborted /\ pc[t] = "Create_146"
     /\ jit_heap' = IF nxt # NULL THEN [jit_heap EXCEPT ![nxt].prev_ = entry] ELSE jit_heap
     /\ g_jit_debug_mem_usage' = g_jit_debug_mem_usage + CreatedBytes(entry)
     /\ jit_debug_descriptor' = DescriptorOnCreate(entry)
     /\ jit_debug_descriptor_timestamp' = Inc(jit_debug_descriptor_timestamp)
     /\ Goto(t, "Create_154")
     /\ UNCHANGED <<fileVars, g_jit_code_entries, native_debug_interface_lock, frame,
                    kEnableDChecks, aborted, histVars>>

CreateJITCodeEntry_154_silent(t) ==
  /\ ~aborted /\ pc[t] = "Create_154"
  /\ ReturnToCaller(t)
  /\ UNCHANGED <<progVars, native_debug_interface_lock, kEnableDChecks, aborted, histVars>>

\* line 154: the breakpoint function is called; line 155: return entry
CreateJITCodeEntry_154(t) ==
  /\ ~aborted /\ pc[t] = "Create_154"
  /\ jit_debug_register_code
  /\ notified' = [notified EXCEPT ![t] = @ + 1]
  /\ ReturnToCaller(t)
  /\ UNCHANGED <<native_debug_interface_lock, kEnableDChecks, aborted, dexHist, jitHist>>

\* ------------------------------------------------------- DeleteJITCodeEntry
\* a direct call; an entry with addresses attached is not to be deleted directly
Call_DeleteJITCodeEntry(t, entry) ==
  /\ ~aborted /\ Idle(t)
  /\ Budget
  /\ jit_heap[entry].alloc
  /\ JitCaller_Lock(t)
  /\ Goto(t, "Delete_159")
  /\ frame' = [frame EXCEPT ![t].entry = entry, ![t].ret = "Ret"]
  /\ misuse' = IF jit_heap[entry].ref_count # 0 THEN misuse + 1 ELSE misuse
  /\ UNCHANGED <<progVars, kEnableDChecks, aborted, dexHist, codeOrder, jitMutations,
                 attachedTo, everAttachedTo, callHist>>

JitUnlink_forward_only(heap, entry) ==
  LET prv == heap[entry].prev_
      nxt == heap[entry].next_
  IN IF prv # NULL THEN [heap EXCEPT ![prv].next_ = nxt] ELSE heap

\* lines 159-167, the records: the neighbours are linked to each other
JitUnlink(heap, entry) ==
  LET prv == heap[entry].prev_
      nxt == heap[entry].next_
      h1 == IF prv # NULL THEN [heap EXCEPT ![prv].next_ = nxt] ELSE heap
  IN IF nxt # NULL THEN [h1 EXCEPT ![nxt].prev_ = prv] ELSE h1

DeleteJITCodeEntry_159_frees_symfile(t) ==
  LET entry == frame[t].entry
  IN /\ ~aborted /\ pc[t] = "Delete_159"
     /\ jit_heap' = [JitUnlink(jit_heap, entry) EXCEPT ![entry].symfile = FALSE]
     /\ g_jit_debug_mem_usage' = g_jit_debug_mem_usage - DeletedBytes(entry)
     /\ jit_debug_descriptor' = DescriptorOnDelete(entry)
     /\ jit_debug_descriptor_timestamp' = Inc(jit_debug_descriptor_timestamp)
     /\ Goto(t, "Delete_173")
     /\ UNCHANGED <<fileVars, g_jit_code_entries, native_debug_interface_lock, frame,
                    kEnableDChecks, aborted, histVars>>

\* lines 159-172: unlink, accounting, descriptor, timestamp
DeleteJITCodeEntry_159(t) ==
  LET entry == frame[t].entry
  IN /\ ~aborted /\ pc[t] = "Delete_159"
     /\ jit_heap' = JitUnlink(jit_heap, entry)
     /\ g_jit_debug_mem_usage' = g_jit_debug_mem_usage - DeletedBytes(entry)
     /\ jit_debug_descriptor' = DescriptorOnDelete(entry)
     /\ jit_debug_descriptor_timestamp' = Inc(jit_debug_descriptor_timestamp)
     /\ Goto(t, "Delete_173")
     /\ UNCHANGED <<fileVars, g_jit_code_entries, native_debug_interface_lock, frame,
                    kEnableDChecks, aborted, histVars>>

\* line 173: the breakpoint function is called
DeleteJITCodeEntry_173(t) ==
  /\ ~aborted /\ pc[t] = "Delete_173"
  /\ jit_debug_register_code
  /\ notified' = [notified EXCEPT ![t] = @ + 1]
  /\ Goto(t, "Delete_174")
  /\ UNCHANGED <<native_debug_interface_lock, frame, kEnableDChecks, aborted, dexHist,
                 jitHist>>

DeleteJITCodeEntry_174_resets_descriptor(t) ==
  /\ ~aborted /\ pc[t] = "Delete_174"
  /\ jit_heap' = [jit_heap EXCEPT ![frame[t].entry] = FreeJit]
  /\ jit_debug_descriptor' = [jit_debug_descriptor EXCEPT
                                !.relevant_entry_ = NULL, !.action_flag_ = JIT_NOACTION]
  /\ IF frame[t].ret = "Ret"
     THEN ReturnToCaller(t)
     ELSE /\ Goto(t, frame[t].ret)
          /\ UNCHANGED frame
  /\ codeOrder' = Without(codeOrder, frame[t].entry)
  /\ jitMutations' = jitMutations + 1
  /\ UNCHANGED <<fileVars, jit_debug_descriptor_timestamp,
                 g_jit_debug_mem_usage, g_jit_code_entries, native_debug_interface_lock,
                 kEnableDChecks, aborted, dexHist, misuse, attachedTo, everAttachedTo,
                 callHist>>

\* lines 174-176: the symfile copy and the entry are freed; return to the caller.
\* History: an entry is freed.
DeleteJITCodeEntry_174(t) ==
  /\ ~aborted /\ pc[t] = "Delete_174"
  /\ jit_heap' = [jit_heap EXCEPT ![frame[t].entry] = FreeJit]
  /\ IF frame[t].ret = "Ret"
     THEN ReturnToCaller(t)
     ELSE /\ Goto(t, frame[t].ret)
          /\ UNCHANGED frame
  /\ codeOrder' = Without(codeOrder, frame[t].entry)
  /\ jitMutations' = jitMutations + 1
  /\ UNCHANGED <<fileVars, jit_debug_descriptor, jit_debug_descriptor_timestamp,
                 g_jit_debug_mem_usage, g_jit_code_entries, native_debug_interface_lock,
                 kEnableDChecks, aborted, dexHist, misuse, attachedTo, everAttachedTo,
                 callHist>>

\* ------------------------------------------- IncrementJITCodeEntryRefcount
Call_IncrementJITCodeEntryRefcount(t, entry, code_address) ==
  /\ ~aborted /\ Idle(t)
  /\ misuse < MaxMisuse
  /\ jit_heap[entry].alloc
  /\ JitCaller_Lock(t)
  /\ Goto(t, "Inc_183")
  /\ frame' = [frame EXCEPT ![t].entry = entry, ![t].addr = code_address]
  /\ UNCHANGED <<progVars, kEnableDChecks, aborted, histVars>>

IsAttached_never(code_address) == FALSE

\* line 183: g_jit_code_entries.count(code_address) != 0
IsAttached(code_address) == code_address \in DOMAIN g_jit_code_entries

\* lines 183-187.
\* History: the address is attached to the entry, unless it was attached already,
\* which breaks the precondition.
IncrementJITCodeEntryRefcount_183(t) ==
  LET entry == frame[t].entry
      code_address == frame[t].addr
      present == IsAttached(code_address)
  IN /\ ~aborted /\ pc[t] = "Inc_183"
     /\ IF kEnableDChecks /\ present
        THEN /\ Abort
             /\ UNCHANGED <<jit_heap, g_jit_code_entries, pc, frame, misuse, attachedTo,
                            everAttachedTo>>
        ELSE /\ jit_heap' = [jit_heap EXCEPT ![entry].ref_count = Inc(@)]
             /\ g_jit_code_entries' = Emplace(g_jit_code_entries, code_address, entry)
             /\ ReturnToCaller(t)
             /\ IF attachedTo[code_address] # NULL
                THEN /\ misuse' = misuse + 1
                     /\ UNCHANGED <<attachedTo, everAttachedTo>>
                ELSE /\ attachedTo' = [attachedTo EXCEPT ![code_address] = entry]
                     /\ everAttachedTo' = [everAttachedTo EXCEPT ![entry] = @ \cup {code_address}]
                     /\ UNCHANGED misuse
             /\ UNCHANGED aborted
     /\ UNCHANGED <<fileVars, jit_debug_descriptor, jit_debug_descriptor_timestamp,
                    g_jit_debug_mem_usage, native_debug_interface_lock,
                    kEnableDChecks, dexHist, codeOrder, jitMutations, callHist>>

\* ------------------------------------------- DecrementJITCodeEntryRefcount
Call_DecrementJITCodeEntryRefcount(t, entry, code_address) ==
  /\ ~aborted /\ Idle(t)
  /\ Budget
  /\ jit_heap[entry].alloc
  /\ JitCaller_Lock(t)
  /\ Goto(t, "Dec_190")
  /\ frame' = [frame EXCEPT ![t].entry = entry, ![t].addr = code_address]
  /\ UNCHANGED <<progVars, kEnableDChecks, aborted, histVars>>

ReachesZero_early(count) == count <= 1

\* line 192: --entry->ref_count == 0
ReachesZero(count) == count = 0

DecrementJITCodeEntryRefcount_190_erases_first(t) ==
  LET entry == frame[t].entry
      code_address == frame[t].addr
      matches == /\ code_address \in DOMAIN g_jit_code_entries
                 /\ g_jit_code_entries[code_address] = entry
      count == Dec(jit_heap[entry].ref_count)
  IN /\ ~aborted /\ pc[t] = "Dec_190"
     /\ g_jit_code_entries' = IF kEnableDChecks /\ ~matches
                              THEN Subscript(g_jit_code_entries, code_address)
                              ELSE Erase(g_jit_code_entries, code_address)
     /\ IF kEnableDChecks /\ ~matches
        THEN /\ Abort
             /\ UNCHANGED <<jit_heap, pc, frame, misuse, attachedTo>>
        ELSE /\ jit_heap' = [jit_heap EXCEPT ![entry].ref_count = count]
             /\ IF ReachesZero(count)
                THEN /\ Goto(t, "Delete_159")
                     /\ frame' = [frame EXCEPT ![t].ret = "Dec_195"]
                ELSE /\ Goto(t, "Dec_195")
                     /\ UNCHANGED frame
             /\ IF attachedTo[code_address] = entry
                THEN /\ attachedTo' = [attachedTo EXCEPT ![code_address] = NULL]
                     /\ UNCHANGED misuse
                ELSE /\ misuse' = misuse + 1
                     /\ UNCHANGED attachedTo
             /\ UNCHANGED aborted
     /\ UNCHANGED <<fileVars, jit_debug_descriptor, jit_debug_descriptor_timestamp,
                    g_jit_debug_mem_usage, native_debug_interface_lock, kEnableDChecks,
                    dexHist, codeOrder, jitMutations, everAttachedTo, callHist>>

\* lines 190-194: the DCHECKs (operator[] inserts a null mapping for an absent key),
\* the decrement and the test against zero.
\* History: the address is detached, unless it was not attached to this entry,
\* which breaks the precondition.
DecrementJITCodeEntryRefcount_190(t) ==
  LET entry == frame[t].entry
      code_address == frame[t].addr
      matches == /\ code_address \in DOMAIN g_jit_code_entries
                 /\ g_jit_code_entries[code_address] = entry
      count == Dec(jit_heap[entry].ref_count)
  IN /\ ~aborted /\ pc[t] = "Dec_190"
     /\ g_jit_code_entries' = IF kEnableDChecks
                              THEN Subscript(g_jit_code_entries, code_address)
                              ELSE g_jit_code_entries
     /\ IF kEnableDChecks /\ ~matches
        THEN /\ Abort
             /\ UNCHANGED <<jit_heap, pc, frame, misuse, attachedTo>>
        ELSE /\ jit_heap' = [jit_heap EXCEPT ![entry].ref_count = count]
             /\ IF ReachesZero(count)
                THEN /\ Goto(t, "Delete_159")
                     /\ frame' = [frame EXCEPT ![t].ret = "Dec_195"]
                ELSE /\ Goto(t, "Dec_195")
                     /\ UNCHANGED frame
             /\ IF attachedTo[code_address] = entry
                THEN /\ attachedTo' = [attachedTo EXCEPT ![code_address] = NULL]
                     /\ UNCHANGED misuse
                ELSE /\ misuse' = misuse + 1
                     /\ UNCHANGED attachedTo
             /\ UNCHANGED aborted
     /\ UNCHANGED <<fileVars, jit_debug_descriptor, jit_debug_descriptor_timestamp,
                    g_jit_debug_mem_usage, native_debug_interface_lock, kEnableDChecks,
                    dexHist, codeOrder, jitMutations, everAttachedTo, callHist>>

DecrementJITCodeEntryRefcount_195_keeps_deleted(t) ==
  /\ ~aborted /\ pc[t] = "Dec_195"
  /\ g_jit_code_entries' = IF jit_heap[frame[t].entry].alloc
                           THEN Erase(g_jit_code_entries, frame[t].addr)
                           ELSE g_jit_code_entries
  /\ ReturnToCaller(t)
  /\ UNCHANGED <<fileVars, jit_debug_descriptor, jit_debug_descriptor_timestamp, jit_heap,
                 g_jit_debug_mem_usage, native_debug_interface_lock, kEnableDChecks,
                 aborted, histVars>>

\* line 195: the index entry goes, whether or not the entry was deleted
DecrementJITCodeEntryRefcount_195(t) ==
  /\ ~aborted /\ pc[t] = "Dec_195"
  /\ g_jit_code_entries' = Erase(g_jit_code_entries, frame[t].addr)
  /\ ReturnToCaller(t)
  /\ UNCHANGED <<fileVars, jit_debug_descriptor, jit_debug_descriptor_timestamp, jit_heap,
                 g_jit_debug_mem_usage, native_debug_interface_lock, kEnableDChecks,
                 aborted, histVars>>

\* ---------------------------------------------------------- GetJITCodeEntry
\* lines 199-200
GetJITCodeEntry(code_address) ==
  IF code_address \in DOMAIN g_jit_code_entries THEN g_jit_code_entries[code_address] ELSE NULL

Call_GetJITCodeEntry(t, code_address) ==
  /\ ~aborted /\ Idle(t)
  /\ JitCaller_Lock(t)
  /\ Goto(t, "Get_199")
  /\ frame' = [frame EXCEPT ![t].addr = code_address]
  /\ UNCHANGED <<progVars, kEnableDChecks, aborted, histVars>>

\* lines 199-200: find() reads the map; the value goes to the caller
GetJITCodeEntry_199(t) ==
  /\ ~aborted /\ pc[t] = "Get_199"
  /\ pc' = [pc EXCEPT ![t] = "Ret"]
  /\ frame' = [frame EXCEPT ![t] = [NoFrame EXCEPT !.result = GetJITCodeEntry(frame[t].addr)]]
  /\ UNCHANGED <<progVars, native_debug_interface_lock, kEnableDChecks, aborted, histVars>>

\* -------------------------------------------------- GetJITCodeEntryMemUsage
\* line 204
GetJITCodeEntryMemUsage ==
  g_jit_debug_mem_usage + Cardinality(DOMAIN g_jit_code_entries) * 2 * SizeofPtr

Call_GetJITCodeEntryMemUsage(t) ==
  /\ ~aborted /\ Idle(t)
  /\ JitCaller_Lock(t)
  /\ Goto(t, "Mem_204")
  /\ UNCHANGED <<progVars, frame, kEnableDChecks, aborted, histVars>>

GetJITCodeEntryMemUsage_204(t) ==
  /\ ~aborted /\ pc[t] = "Mem_204"
  /\ pc' = [pc EXCEPT ![t] = "Ret"]
  /\ frame' = [frame EXCEPT ![t] = [NoFrame EXCEPT !.result = GetJITCodeEntryMemUsage]]
  /\ UNCHANGED <<progVars, native_debug_interface_lock, kEnableDChecks, aborted, histVars>>

\* ------------------------------------------------------------ the program
Next ==
  \/ \E t \in Threads : Call_RegisterDexFileForNative(t)
  \/ \E t \in Threads, d \in DexFiles : RegisterDexFileForNative_94(t, d)
  \/ \E t \in Threads : RegisterDexFileForNative_95(t)
  \/ \E t \in Threads : RegisterDexFileForNative_101(t)
  \/ \E t \in Threads : RegisterDexFileForNative_108(t)
  \/ \E t \in Threads : Call_DeregisterDexFileForNative(t)
  \/ \E t \in Threads, d \in DexFiles : DeregisterDexFileForNative_111(t, d)
  \/ \E t \in Threads : DeregisterDexFileForNative_112(t)
  \/ \E t \in Threads : DeregisterDexFileForNative_117(t)
  \/ \E t \in Threads : DeregisterDexFileForNative_129(t)
  \/ \E t \in Threads, n \in SymfileSizes : Call_CreateJITCodeEntry(t, n)
  \/ \E t \in Threads : CreateJITCodeEntry_132(t)
  \/ \E t \in Threads : CreateJITCodeEntry_146(t)
  \/ \E t \in Threads : CreateJITCodeEntry_154(t)
  \/ \E t \in Threads, e \in EntrySlots : Call_DeleteJITCodeEntry(t, e)
  \/ \E t \in Threads : DeleteJITCodeEntry_159(t)
  \/ \E t \in Threads : DeleteJITCodeEntry_173(t)
  \/ \E t \in Threads : DeleteJITCodeEntry_174(t)
  \/ \E t \in Threads, e \in EntrySlots, a \in CodeAddrs :
        Call_IncrementJITCodeEntryRefcount(t, e, a)
  \/ \E t \in Threads : IncrementJITCodeEntryRefcount_183(t)
  \/ \E t \in Threads, e \in EntrySlots, a \in CodeAddrs :
        Call_DecrementJITCodeEntryRefcount(t, e, a)
  \/ \E t \in Threads : DecrementJITCodeEntryRefcount_190(t)
  \/ \E t \in Threads : DecrementJITCodeEntryRefcount_195(t)
  \/ \E t \in Threads, a \in CodeAddrs : Call_GetJITCodeEntry(t, a)
  \/ \E t \in Threads : GetJITCodeEntry_199(t)
  \/ \E t \in Threads : Call_GetJITCodeEntryMemUsage(t)
  \/ \E t \in Threads : GetJITCodeEntryMemUsage_204(t)
  \/ \E t \in Threads : JitCaller_Return(t)

Spec == Init /\ [][Next]_vars
\* the same program, observed from the state a long run has reached
SpecLongRun == InitLongRun /\ [][Next]_vars

\* ================================================================ properties
\* positions inside a critical section of the file side / of any function
FilePcs == {"Reg_95", "Reg_101", "Reg_108", "Dereg_112", "Dereg_117", "Dereg_129"}
WaitPcs == {"idle", "Reg_94", "Dereg_111"}
DeletePcs == {"Delete_159", "Delete_173", "Delete_174"}
\* no call is under way on the file side / on either side
FileQuiet == \A t \in Threads : pc[t] \notin FilePcs
Quiet == \A t \in Threads : pc[t] \in WaitPcs

Live(e) == jit_heap[e].alloc
CodeList == Walk(jit_heap, jit_debug_descriptor.first_entry_, "next_")
FileList == Walk(dex_heap, art_debug_dexfiles, "next_")
Reachable(e) == e \in Range(CodeList)
Attached(e) == {a \in CodeAddrs : attachedTo[a] = e}
\* thread t is in the DeleteJITCodeEntry that DecrementJITCodeEntryRefcount called for e
DetachDeletes(t, e) == pc[t] \in DeletePcs /\ frame[t].entry = e /\ frame[t].ret = "Dec_195"

\* a doubly linked list as a reader sees it: w is the walk from the head via next_
WellLinked(heap, w) ==
  /\ \A i, j \in 1..Len(w) : i # j => w[i] # w[j]
  /\ \A i \in 1..Len(w) : heap[w[i]].alloc
  /\ Len(w) > 0 => heap[w[1]].prev_ = NULL
  /\ \A i \in 1..(Len(w) - 1) : heap[w[i + 1]].prev_ = w[i]
  /\ Len(w) > 0 => Walk(heap, w[Len(w)], "prev_") = Reverse(w)

\* ------------------------------------------------------------------------ C1
\* C1, what holds in every state
C1_StateOk ==
  misuse = 0 =>
    \A e \in EntrySlots :
      /\ Attached(e) # {} => Live(e) /\ jit_heap[e].symfile /\ Reachable(e)
      /\ (everAttachedTo[e] # {} /\ Attached(e) = {} /\ Live(e)) =>
            \E t \in Threads : DetachDeletes(t, e)
\* C1, what every step keeps
C1_StepOk ==
  misuse = 0 /\ misuse' = 0 =>
    \A e \in {x \in EntrySlots : everAttachedTo[x] # {}} :
      (Live(e) /\ ~jit_heap'[e].alloc) =>
         \E t \in Threads : DetachDeletes(t, e) /\ pc[t] = "Delete_174" /\ Attached(e) = {}
\* C1 (refcount lifecycle): while callers keep the preconditions, an entry that has
\* an attached address not yet detached is allocated, owns its symfile and is
\* reachable from first_entry_ (it survives every Detach but the last); an entry whose
\* attached addresses have all been detached is freed, or is at that moment being
\* deleted by the very Detach that removed the last address; and an entry that had
\* addresses attached is freed by no step other than that Detach's delete.
C1_RefcountLifecycle == [](C1_StateOk) /\ [][C1_StepOk]_vars

\* the second of two Detach calls has deleted the entry and is about to erase its key
C1_Witness ==
  \E t \in Threads, e \in EntrySlots :
    /\ misuse = 0 /\ pc[t] = "Dec_195" /\ frame[t].entry = e
    /\ everAttachedTo[e] # {} /\ ~Live(e) /\ ~Reachable(e)
    /\ Cardinality(DOMAIN g_jit_code_entries) = 1
    /\ \A a \in CodeAddrs : attachedTo[a] = NULL

\* ------------------------------------------------------------------------ C2
\* C2 (descriptor coherence at the notification point): when the breakpoint function
\* is about to be called by CreateJITCodeEntry, first_entry_ and relevant_entry_ are
\* the new entry and action_flag_ is JIT_REGISTER_FN; when it is about to be called by
\* DeleteJITCodeEntry, relevant_entry_ is the entry being deleted, action_flag_ is
\* JIT_UNREGISTER_FN and the entry is not reachable from first_entry_.
C2_DescriptorCoherent ==
  \A t \in Threads :
    /\ pc[t] = "Create_154" =>
         /\ frame[t].entry # NULL
         /\ jit_debug_descriptor.first_entry_ = frame[t].entry
         /\ jit_debug_descriptor.relevant_entry_ = frame[t].entry
         /\ jit_debug_descriptor.action_flag_ = JIT_REGISTER_FN
    /\ pc[t] = "Delete_173" =>
         /\ frame[t].entry # NULL
         /\ jit_debug_descriptor.relevant_entry_ = frame[t].entry
         /\ jit_debug_descriptor.action_flag_ = JIT_UNREGISTER_FN
         /\ ~Reachable(frame[t].entry)

\* a deletion announces an entry while another entry, created later, is still listed
C2_Witness ==
  \E t \in Threads :
    /\ pc[t] = "Delete_173"
    /\ jit_debug_descriptor.first_entry_ \notin {NULL, frame[t].entry}

\* ------------------------------------------------------------------------ C3
\* C3, what holds in every state
C3_StateOk ==
  \A t \in Threads :
    pc[t] \in {"Create_154", "Delete_173"} =>
      /\ jit_debug_descriptor.relevant_entry_ # NULL
      /\ jit_heap[jit_debug_descriptor.relevant_entry_].alloc
      /\ jit_heap[jit_debug_descriptor.relevant_entry_].symfile
\* C3, what every step keeps
C3_StepOk ==
  /\ \A e \in EntrySlots :
       ((jit_heap[e].alloc /\ ~jit_heap'[e].alloc) \/ (jit_heap[e].symfile /\ ~jit_heap'[e].symfile))
         => \E t \in Threads : pc[t] = "Delete_174" /\ frame[t].entry = e
  /\ \A t \in Threads :
       (pc'[t] = "Delete_174" /\ pc[t] # "Delete_174") =>
          /\ pc[t] = "Delete_173"
          /\ jit_debug_descriptor.relevant_entry_ = frame[t].entry
\* C3 (no free before announcement): whenever the breakpoint function is about to be
\* called, the entry relevant_entry_ designates and its symfile copy are allocated;
\* and an entry or its symfile copy is released only by the step of
\* DeleteJITCodeEntry that follows the return of the breakpoint function.
C3_NoFreeBeforeAnnouncement == [](C3_StateOk) /\ [][C3_StepOk]_vars

\* the breakpoint function has returned from announcing a removal; the entry is intact
C3_Witness ==
  \E t \in Threads :
    /\ pc[t] = "Delete_174"
    /\ jit_heap[frame[t].entry].alloc /\ jit_heap[frame[t].entry].symfile
    /\ jit_debug_descriptor.relevant_entry_ = frame[t].entry

\* ------------------------------------------------------------------------ C5
\* C5 (file-list integrity): when no call is under way on the file side, the walk from
\* __art_debug_dexfiles via next_ visits exactly the registered files, once each, most
\* recently registered first; the head's prev_ is null, each successor's prev_ is its
\* predecessor, and the walk from the tail via prev_ is the reverse walk; the index
\* maps exactly the registered files, each to its record.
C5_FileListIntegrity ==
  FileQuiet =>
    LET w == FileList
    IN /\ [i \in 1..Len(w) |-> dex_heap[w[i]].dexfile_] = dexOrder
       /\ WellLinked(dex_heap, w)
       /\ DOMAIN g_dexfile_entries = Range(dexOrder)
       /\ \A i \in 1..Len(w) : g_dexfile_entries[dex_heap[w[i]].dexfile_] = w[i]
       /\ \A x \in DexSlots : dex_heap[x].alloc => x \in Range(w)

\* files 1, 2, 3 were registered in this order and the middle one was deregistered
C5_Witness ==
  /\ FileQuiet /\ art_debug_dexfiles_timestamp = 4
  /\ dexOrder = <<3, 1>>
  /\ art_debug_dexfiles = 3 /\ dex_heap[3].next_ = 1 /\ dex_heap[1].prev_ = 3
  /\ ~dex_heap[2].alloc

\* ------------------------------------------------------------------------ C6
\* C6 (code-list integrity): when no call is under way, the walk from first_entry_ via
\* next_ visits exactly the allocated entries, once each, most recently created first;
\* the head's prev_ is null, prev_ is the inverse of next_, and first_entry_ is null
\* exactly when no entry is allocated.
C6_CodeListIntegrity ==
  Quiet =>
    LET w == CodeList
    IN /\ w = codeOrder
       /\ Range(w) = {e \in EntrySlots : Live(e)}
       /\ WellLinked(jit_heap, w)
       /\ (jit_debug_descriptor.first_entry_ = NULL) <=> (\A e \in EntrySlots : ~Live(e))

\* three entries were created and the middle one was deleted
C6_Witness ==
  /\ Quiet /\ jit_debug_descriptor_timestamp = 4
  /\ jit_debug_descriptor.first_entry_ = 3
  /\ jit_heap[3].next_ = 1 /\ jit_heap[1].prev_ = 3 /\ Live(1) /\ Live(3) /\ ~Live(2)

C7_StateOk ==
  FileQuiet =>
    /\ \A x, y \in DexSlots :
         (dex_heap[x].alloc /\ dex_heap[y].alloc /\ dex_heap[x].dexfile_ = dex_heap[y].dexfile_)
           => x = y
    /\ art_debug_dexfiles_timestamp = dexMutations
\* C7, what every step keeps
C7_StepOk ==
  \A t \in Threads :
    (pc[t] \in {"Reg_95", "Reg_101", "Reg_108"} /\ frame[t].addr \in Range(dexOrder))
      => /\ UNCHANGED fileVars
         /\ pc'[t] \in {pc[t], "Reg_108", "idle"}
\* C7 (idempotent file registration): a call of RegisterDexFileForNative for a file
\* that is registered changes neither the file list nor the index nor the file
\* timestamp; and whenever no call is under way on the file side there is at most one
\* record per file and the file timestamp counts only the calls that changed the list.
C7_IdempotentRegistration == [](C7_StateOk) /\ [][C7_StepOk]_vars

\* a second registration of a registered file is about to return without a new record
C7_Witness ==
  \E t \in Threads :
    /\ pc[t] = "Reg_108" /\ frame[t].entry = NULL
    /\ frame[t].addr \in Range(dexOrder)
    /\ art_debug_dexfiles_timestamp = 1 /\ Len(FileList) = 1

\* ------------------------------------------------------------------------ C8
\* C8, what every step keeps
C8_StepOk ==
  \A t \in Threads :
    (pc[t] \in {"Dereg_112", "Dereg_117", "Dereg_129"} /\ frame[t].addr \notin Range(dexOrder))
      => /\ UNCHANGED <<fileVars, jit_debug_descriptor_timestamp, aborted>>
         /\ pc'[t] \in {pc[t], "Dereg_129", "idle"}
\* C8 (tolerated deregistration): a call of DeregisterDexFileForNative for a file that
\* is not registered changes neither the file list nor the index nor either
\* timestamp, ends no process, and returns.
C8_ToleratedDeregistration == [][C8_StepOk]_vars

\* a file that was registered and deregistered is deregistered again, another is listed
C8_Witness ==
  \E t \in Threads :
    /\ pc[t] = "Dereg_129" /\ frame[t].entry = NULL
    /\ frame[t].addr \notin Range(dexOrder)
    /\ art_debug_dexfiles_timestamp = 3 /\ Len(FileList) = 1

\* ------------------------------------------------------------------------ C9
RECURSIVE SumBytes(_)
SumBytes(S) ==
  IF S = {} THEN 0
  ELSE LET e == CHOOSE x \in S : TRUE
       IN SizeofJITCodeEntry + jit_heap[e].symfile_size_ + SumBytes(S \ {e})
\* C9, what holds in every state
C9_StateOk ==
  /\ ~Wrapped(g_jit_debug_mem_usage)
  /\ Quiet =>
       GetJITCodeEntryMemUsage =
         SumBytes({e \in EntrySlots : Live(e)})
           + 2 * SizeofPtr * Cardinality(DOMAIN g_jit_code_entries)
\* C9, what every step keeps
C9_StepOk ==
  \A t \in Threads :
    /\ (pc[t] = "Create_146" /\ pc'[t] # pc[t]) =>
          GetJITCodeEntryMemUsage' = GetJITCodeEntryMemUsage + frame[t].size + SizeofJITCodeEntry
    /\ (pc[t] \in {"Create_132", "Create_154"}) =>
          GetJITCodeEntryMemUsage' = GetJITCodeEntryMemUsage
\* C9 (memory accounting): the accumulator never wraps; whenever no call is under way
\* GetJITCodeEntryMemUsage() is the sum over the allocated entries of
\* sizeof(JITCodeEntry) + symfile_size_, plus two pointers per key of the code-address
\* index; and CreateJITCodeEntry raises it by sizeof(JITCodeEntry) + symfile.size(),
\* in one step, its other steps leaving it alone.
C9_MemoryAccounting == [](C9_StateOk) /\ [][C9_StepOk]_vars

\* an entry had an address attached and detached and is
\* gone; another entry, of one byte, remains
C9_Witness ==
  /\ Quiet /\ misuse = 0
  /\ jit_debug_descriptor_timestamp = 3
  /\ \E e \in {x \in EntrySlots : everAttachedTo[x] # {}} : ~Live(e)
  /\ Cardinality({e \in EntrySlots : Live(e)}) = 1
  /\ GetJITCodeEntryMemUsage = SizeofJITCodeEntry + 1

\* ----------------------------------------------------------------------- C10
\* an entry that had addresses attached and was deleted by the last Detach
Detached(e) == everAttachedTo[e] # {} /\ Attached(e) = {} /\ ~Live(e)

\* C10 as claimed, last clause: while callers keep the preconditions, when the
\* DecrementJITCodeEntryRefcount that deleted an entry (its last Detach) returns,
\* GetJITCodeEntry returns null for every address that was ever attached to that entry.
C10_AsClaimed ==
  [][\A t \in Threads :
       (misuse = 0 /\ pc[t] = "Dec_195" /\ pc'[t] = "Ret" /\ ~Live(frame[t].entry)) =>
         \A a \in everAttachedTo[frame[t].entry] : a \notin DOMAIN g_jit_code_entries']_vars

\* C10, what holds in every state
C10_StateOk ==
  (misuse = 0 /\ Quiet) =>
    /\ \A a \in CodeAddrs :
         /\ GetJITCodeEntry(a) = attachedTo[a]
         /\ GetJITCodeEntry(a) # NULL => Live(GetJITCodeEntry(a))
    /\ \A e \in EntrySlots :
         Detached(e) =>
           \A a \in everAttachedTo[e] :
             /\ GetJITCodeEntry(a) # e
             /\ GetJITCodeEntry(a) = NULL \/ a \in everAttachedTo[GetJITCodeEntry(a)]
\* C10, what every step keeps
C10_StepOk ==
  \A t \in Threads :
    /\ (pc[t] = "Get_199" /\ pc'[t] # pc[t]) =>
          /\ UNCHANGED <<progVars, histVars>>
          /\ misuse = 0 => frame'[t].result = attachedTo[frame[t].addr]
    /\ (pc[t] = "Dec_190" /\ pc'[t] # pc[t]) =>
          \/ pc'[t] = "Dec_195"
          \/ pc'[t] = "Delete_159" /\ frame'[t].ret = "Dec_195"
    /\ (DetachDeletes(t, frame[t].entry) /\ pc'[t] \notin DeletePcs) => pc'[t] = "Dec_195"
    /\ (pc[t] = "Dec_195" /\ pc'[t] # pc[t]) =>
          /\ pc'[t] = "Ret"
          /\ frame[t].addr \notin DOMAIN g_jit_code_entries'
\* C10 (lookup correctness), amended: while callers keep the preconditions,
\* GetJITCodeEntry changes nothing and returns the entry the address is attached to,
\* null when it is attached to none; whenever no call is under way the index maps
\* exactly the attached addresses, each to its entry, which is allocated; when
\* DecrementJITCodeEntryRefcount returns, its address is no key of the index, whether
\* or not the entry was deleted; and after the last Detach of an entry GetJITCodeEntry
\* returns that entry for no address: for an address that was attached to it, it
\* returns null, or the allocated entry the address has been attached to since.
C10_LookupCorrectness == [](C10_StateOk) /\ [][C10_StepOk]_vars

\* an address is looked up after the last Detach deleted the entry it was attached
\* to; the other address that was attached to that entry is attached to another entry
C10_Witness ==
  \E t \in Threads, e \in EntrySlots :
    /\ misuse = 0 /\ pc[t] = "Get_199"
    /\ Detached(e)
    /\ frame[t].addr \in everAttachedTo[e]
    /\ GetJITCodeEntry(frame[t].addr) = NULL
    /\ \E a \in everAttachedTo[e] : GetJITCodeEntry(a) # NULL

\* ----------------------------------------------------------------------- C11
CreatePcs == {"Create_132", "Create_146", "Create_154"}
\* the call thread t is in has changed the file list (Reg_108: its record is linked;
\* Dereg_129: the record it found is unlinked and freed)
FileEffective(t) == pc[t] \in {"Reg_108", "Dereg_129"} /\ frame[t].entry # NULL

\* C11 as claimed: every call that changed a list has called the breakpoint function
\* exactly once when it is about to return: an effective RegisterDexFileForNative and
\* an effective DeregisterDexFileForNative as well as CreateJITCodeEntry and every
\* deletion of a code entry.
C11_AsClaimed ==
  \A t \in Threads :
    /\ FileEffective(t) => notified[t] = 1
    /\ pc[t] = "Delete_174" => notified[t] = 1

\* C11, what holds in every state
C11_StateOk ==
  \A t \in Threads :
    /\ pc[t] \in CreatePcs \cup {"Delete_159", "Delete_173", "Inc_183", "Dec_190",
                                "Get_199", "Mem_204"} => notified[t] = 0
    /\ pc[t] = "Delete_174" => notified[t] = 1
    /\ pc[t] = "Dec_195" => notified[t] = (IF Live(frame[t].entry) THEN 0 ELSE 1)
    /\ pc[t] \in FilePcs \cup WaitPcs => notified[t] = 0
    /\ pc[t] = "Create_154" =>
         /\ CodeList # <<>> /\ Head(CodeList) = frame[t].entry
         /\ jit_debug_descriptor_timestamp = jitMutations
         /\ g_jit_debug_mem_usage = SumBytes({e \in EntrySlots : Live(e)})
    /\ pc[t] = "Delete_173" =>
         /\ ~Reachable(frame[t].entry)
         /\ jit_debug_descriptor_timestamp = jitMutations + 1
         /\ g_jit_debug_mem_usage = SumBytes({e \in EntrySlots : Live(e)} \ {frame[t].entry})
\* C11, what every step keeps
C11_StepOk ==
  \A t \in Threads :
    /\ notified'[t] # notified[t] =>
         \/ /\ pc[t] \in {"Create_154", "Delete_173"}
            /\ notified'[t] = notified[t] + 1
            /\ UNCHANGED progVars
         \/ pc'[t] = "idle" /\ notified'[t] = 0
    /\ (pc[t] = "Create_154" /\ pc'[t] # pc[t]) => pc'[t] = "Ret" /\ notified'[t] = 1
    /\ (pc[t] = "Delete_173" /\ pc'[t] # pc[t]) => pc'[t] = "Delete_174" /\ notified'[t] = 1
    /\ (pc[t] = "Delete_174" /\ pc'[t] # pc[t]) =>
         /\ UNCHANGED <<fileVars, jit_debug_descriptor, jit_debug_descriptor_timestamp,
                        g_jit_debug_mem_usage, g_jit_code_entries>>
         /\ CodeList' = CodeList
    /\ (FileEffective(t) /\ pc'[t] # pc[t]) => pc'[t] = "idle" /\ notified[t] = 0
\* C11 (every mutation notifies), amended: CreateJITCodeEntry and every deletion of a
\* code entry call the breakpoint function exactly once, when the list, the
\* descriptor, the timestamp and the accumulator are updated, and before they return
\* (the deletion frees the entry afterwards and changes nothing else); an effective
\* RegisterDexFileForNative or DeregisterDexFileForNative returns without having
\* called the breakpoint function, and so does every call that changes no list.
C11_MutationNotifies == [](C11_StateOk) /\ [][C11_StepOk]_vars

\* a deletion has announced its entry; a file was registered before, without a call
\* of the breakpoint function
C11_Witness ==
  \E t \in Threads :
    /\ pc[t] = "Delete_174" /\ notified[t] = 1
    /\ dexOrder # <<>>

\* ----------------------------------------------------------------------- C12
\* C12 as claimed, first clause: each timestamp is monotonically increasing (no step
\* takes it to a smaller value).
C12_AsClaimed ==
  [][/\ ~U32Less(art_debug_dexfiles_timestamp', art_debug_dexfiles_timestamp)
     /\ ~U32Less(jit_debug_descriptor_timestamp', jit_debug_descriptor_timestamp)]_vars

\* the step of thread t changes the file list / the code list
FileMutation(t) == pc[t] \in {"Reg_101", "Dereg_117"} /\ pc'[t] # pc[t]
CodeMutation(t) == pc[t] \in {"Create_146", "Delete_159"} /\ pc'[t] # pc[t]
\* one increment of a uint32_t: the next value, 0 after UINT32_MAX
U32Next(x, y) == y = Inc(x) /\ (IF x = MaxU32 THEN y = 0 ELSE U32Less(x, y))

\* C12, what every step keeps
C12_StepOk ==
  /\ IF \E t \in Threads : FileMutation(t)
     THEN U32Next(art_debug_dexfiles_timestamp, art_debug_dexfiles_timestamp')
     ELSE UNCHANGED art_debug_dexfiles_timestamp
  /\ IF \E t \in Threads : CodeMutation(t)
     THEN U32Next(jit_debug_descriptor_timestamp, jit_debug_descriptor_timestamp')
     ELSE UNCHANGED jit_debug_descriptor_timestamp
  /\ \A t \in Threads :
       /\ (FileMutation(t) \/ CodeMutation(t)) => notified[t] = 0
       /\ (pc'[t] \in {"Create_154", "Delete_173"} /\ pc'[t] # pc[t]) => CodeMutation(t)
\* C12 (change counters), amended: each timestamp is incremented by exactly one,
\* modulo 2^32, by every step that changes its own list (the linking step of an
\* effective RegisterDexFileForNative and the unlinking step of an effective
\* DeregisterDexFileForNative for the file timestamp; the linking step of
\* CreateJITCodeEntry and the unlinking step of every deletion for the code timestamp,
\* in both cases the step that leads to the call of the breakpoint function, not yet
\* made) and is changed by no other step; it grows until it is UINT32_MAX, and the
\* next increment takes it to 0.
C12_ChangeCounters == [][C12_StepOk]_vars

\* the file timestamp has wrapped: two files were registered since it was 2^32 - 2
C12_Witness ==
  /\ FileQuiet
  /\ art_debug_dexfiles_timestamp = 0
  /\ Len(FileList) = 2

\* ----------------------------------------------------------------------- C13
\* the keys of the code-address index mapped to entry e
KeysOf(e) == {a \in DOMAIN g_jit_code_entries : g_jit_code_entries[a] = e}
\* thread t is about to execute IncrementJITCodeEntryRefcount for an address that is a key
DoubleAttach(t) == pc[t] = "Inc_183" /\ IsAttached(frame[t].addr)

\* C13 as claimed: IncrementJITCodeEntryRefcount for an address that is already a key
\* of the index does not go on (the only step it takes is the failed assertion), so
\* it changes no reference count.
C13_AsClaimed ==
  [][\A t \in Threads : DoubleAttach(t) => (pc'[t] = pc[t] /\ jit_heap' = jit_heap)]_vars

\* C13, what holds in every state
C13_StateOk ==
  kEnableDChecks =>
    \A e \in EntrySlots : Live(e) => jit_heap[e].ref_count <= Cardinality(KeysOf(e))
\* C13, what every step keeps
C13_StepOk ==
  \A t \in Threads :
    (DoubleAttach(t) /\ (pc'[t] # pc[t] \/ aborted')) =>
      IF kEnableDChecks
      THEN aborted' /\ pc' = pc /\ UNCHANGED progVars
      ELSE /\ ~aborted' /\ pc'[t] = "Ret"
           /\ g_jit_code_entries' = g_jit_code_entries
           /\ jit_heap'[frame[t].entry].ref_count = Inc(jit_heap[frame[t].entry].ref_count)
           /\ misuse = 0 =>
                jit_heap'[frame[t].entry].ref_count > Cardinality(KeysOf(frame[t].entry))
\* C13 (double attach), amended: in a build with DCHECKs, IncrementJITCodeEntryRefcount
\* for an address that is already a key of the index fails its assertion, the process
\* ends with nothing changed, and no allocated entry's ref_count ever exceeds the
\* number of keys mapped to it; in a build without DCHECKs the call is not detected:
\* it returns, having incremented the ref_count of the entry it was given and left
\* the index alone, so that (when it is the first broken precondition) the ref_count
\* of that entry exceeds the number of keys mapped to it.
C13_DoubleAttach == [](C13_StateOk) /\ [][C13_StepOk]_vars

\* a build with DCHECKs has stopped at the assertion of a double attach
C13_Witness ==
  \E t \in Threads :
    /\ kEnableDChecks /\ aborted
    /\ DoubleAttach(t)
    /\ jit_heap[frame[t].entry].ref_count = 1

\* ----------------------------------------------------------------------- C14
\* the values the static initialisers give (lines 70, 73, 81, 84)
InitialValues ==
  /\ jit_debug_descriptor.version_ = 1
  /\ jit_debug_descriptor.action_flag_ = JIT_NOACTION
  /\ jit_debug_descriptor.relevant_entry_ = NULL
  /\ jit_debug_descriptor.first_entry_ = NULL
  /\ art_debug_dexfiles = NULL
  /\ jit_debug_descriptor_timestamp = 0
  /\ art_debug_dexfiles_timestamp = 0

\* C14 (initial state and version): initially version_ is 1, action_flag_ is
\* JIT_NOACTION, relevant_entry_, first_entry_ and __art_debug_dexfiles are null and
\* both timestamps are 0; version_ is 1 in every reachable state and no step writes it.
C14_InitialStateAndVersion ==
  /\ InitialValues
  /\ [](jit_debug_descriptor.version_ = 1)
  /\ [][jit_debug_descriptor.version_' = jit_debug_descriptor.version_]_vars

\* entries were created and deleted and a file was registered; version_ is still 1
C14_Witness ==
  /\ Quiet
  /\ jit_debug_descriptor.version_ = 1
  /\ jit_debug_descriptor.action_flag_ = JIT_UNREGISTER_FN
  /\ jit_debug_descriptor.first_entry_ # NULL
  /\ art_debug_dexfiles # NULL

\* ----------------------------------------------------------------------- C15
\* C15, what holds in every state
C15_StateOk ==
  misuse = 0 =>
    /\ \A e \in EntrySlots : ~Wrapped(jit_heap[e].ref_count)
    /\ Quiet =>
         /\ \A e \in EntrySlots :
              Live(e) => jit_heap[e].ref_count = Cardinality(KeysOf(e))
         /\ \A a \in DOMAIN g_jit_code_entries :
              /\ g_jit_code_entries[a] # NULL
              /\ Live(g_jit_code_entries[a])
              /\ Reachable(g_jit_code_entries[a])
\* C15, what every step keeps
C15_StepOk ==
  misuse' = 0 =>
    \A e \in EntrySlots :
      (Live(e) /\ jit_heap'[e].alloc /\ jit_heap'[e].ref_count # jit_heap[e].ref_count) =>
         \/ jit_heap'[e].ref_count = Inc(jit_heap[e].ref_count)
         \/ /\ jit_heap[e].ref_count > 0
            /\ jit_heap'[e].ref_count = Dec(jit_heap[e].ref_count)
\* C15 (refcount/index agreement): while callers keep the preconditions, whenever no
\* call is under way the ref_count of each allocated entry is the number of keys of
\* the code-address index mapped to it and every key is mapped to an allocated entry
\* that is reachable from first_entry_; and ref_count is never decremented from 0:
\* it is never a wrapped value, and a step that lowers it lowers it by one from a
\* value above 0.
C15_RefcountIndexAgreement == [](C15_StateOk) /\ [][C15_StepOk]_vars

\* two addresses are attached to one entry; another entry has none
C15_Witness ==
  /\ Quiet /\ misuse = 0
  /\ \E e \in EntrySlots : Live(e) /\ jit_heap[e].ref_count = 2 /\ Cardinality(KeysOf(e)) = 2
  /\ \E e \in EntrySlots : Live(e) /\ jit_heap[e].ref_count = 0

\* ----------------------------------------------------------------------- C16
\* thread t, waiting at the lock, acquires it
Acquire(t) ==
  \E d \in DexFiles : RegisterDexFileForNative_94(t, d) \/ DeregisterDexFileForNative_111(t, d)
\* thread t, inside a call, takes the next step of the call
Proceed(t) ==
  \/ RegisterDexFileForNative_95(t) \/ RegisterDexFileForNative_101(t)
  \/ RegisterDexFileForNative_108(t)
  \/ DeregisterDexFileForNative_112(t) \/ DeregisterDexFileForNative_117(t)
  \/ DeregisterDexFileForNative_129(t)
  \/ CreateJITCodeEntry_132(t) \/ CreateJITCodeEntry_146(t) \/ CreateJITCodeEntry_154(t)
  \/ DeleteJITCodeEntry_159(t) \/ DeleteJITCodeEntry_173(t) \/ DeleteJITCodeEntry_174(t)
  \/ IncrementJITCodeEntryRefcount_183(t)
  \/ DecrementJITCodeEntryRefcount_190(t) \/ DecrementJITCodeEntryRefcount_195(t)
  \/ GetJITCodeEntry_199(t) \/ GetJITCodeEntryMemUsage_204(t)
  \/ JitCaller_Return(t)
\* fair scheduling: a thread that can take the next step of its call takes it, and a
\* thread waiting at the lock is not passed over for ever when the lock is free again
\* and again
FairScheduling ==
  \A t \in Threads : WF_vars(Proceed(t)) /\ SF_vars(Acquire(t))
\* the threads call the two functions of the file that take the lock
FileNext ==
  \/ \E t \in Threads : Call_RegisterDexFileForNative(t)
  \/ \E t \in Threads, d \in DexFiles : RegisterDexFileForNative_94(t, d)
  \/ \E t \in Threads : RegisterDexFileForNative_95(t)
  \/ \E t \in Threads : RegisterDexFileForNative_101(t)
  \/ \E t \in Threads : RegisterDexFileForNative_108(t)
  \/ \E t \in Threads : Call_DeregisterDexFileForNative(t)
  \/ \E t \in Threads, d \in DexFiles : DeregisterDexFileForNative_111(t, d)
  \/ \E t \in Threads : DeregisterDexFileForNative_112(t)
  \/ \E t \in Threads : DeregisterDexFileForNative_117(t)
  \/ \E t \in Threads : DeregisterDexFileForNative_129(t)
FileSpec == Init /\ [][FileNext]_vars /\ FairScheduling

LockPcs == {"Reg_94", "Dereg_111"}
\* C16, what holds in every state
C16_StateOk ==
  /\ \A t \in Threads :
       /\ pc[t] \in FilePcs <=> native_debug_interface_lock = t
       /\ pc[t] \in LockPcs \cup {"idle"} \cup FilePcs
  /\ (\E t \in Threads : pc[t] # "idle") => ENABLED (\E t \in Threads : Acquire(t) \/ Proceed(t))
\* C16, what every step keeps
C16_StepOk ==
  \A t \in Threads :
    /\ (native_debug_interface_lock = t /\ pc'[t] # pc[t]) => pc'[t] \notin LockPcs
    /\ (pc[t] \in {"Reg_108", "Dereg_129"} /\ pc'[t] # pc[t]) =>
          pc'[t] = "idle" /\ native_debug_interface_lock' = NoThread
CodePcs == CreatePcs \cup DeletePcs \cup {"Inc_183", "Dec_190", "Dec_195"}

\* C17 (independence of the two lists): no step of RegisterDexFileForNative or
\* DeregisterDexFileForNative changes the descriptor, a JITCodeEntry record, the
\* code-address index, the code timestamp or the accumulator; no step of
\* CreateJITCodeEntry, DeleteJITCodeEntry, IncrementJITCodeEntryRefcount or
\* DecrementJITCodeEntryRefcount, a failed assertion included, changes the file list,
\* the file index or the file timestamp; and making a call changes neither.
C17_Independence ==
  [][/\ \A t \in Threads :
          /\ (pc[t] \in LockPcs \cup FilePcs /\ pc'[t] # pc[t]) => UNCHANGED codeVars
          /\ (pc[t] \in CodePcs /\ (pc'[t] # pc[t] \/ aborted' # aborted)) =>
                UNCHANGED fileVars
          /\ (pc[t] = "idle" /\ pc'[t] # pc[t]) => UNCHANGED progVars
     /\ fileVars' # fileVars => \E t \in Threads : pc[t] \in FilePcs /\ pc'[t] # pc[t]
     /\ codeVars' # codeVars => \E t \in Threads : pc[t] \in CodePcs]_vars

\* a file is deregistered while a code entry with an attached address exists
C17_Witness ==
  \E t \in Threads :
    /\ pc[t] = "Dereg_129" /\ frame[t].entry # NULL
    /\ jit_debug_descriptor.first_entry_ # NULL
    /\ DOMAIN g_jit_code_entries # {}
    /\ g_jit_debug_mem_usage > 0

\* ----------------------------------------------------------------------- C18
\* C18, what holds in every state
C18_StateOk ==
  LET d == jit_debug_descriptor
  IN /\ jit_debug_descriptor_timestamp # 0 => d.action_flag_ # JIT_NOACTION
     /\ d.action_flag_ = JIT_NOACTION => d.relevant_entry_ = NULL
     /\ Quiet =>
          /\ d.action_flag_ = JIT_REGISTER_FN =>
               d.relevant_entry_ # NULL /\ Live(d.relevant_entry_)
                 /\ d.relevant_entry_ = d.first_entry_
          /\ d.action_flag_ = JIT_UNREGISTER_FN =>
               d.relevant_entry_ # NULL /\ ~Live(d.relevant_entry_)
\* C18, what every step keeps
C18_StepOk ==
  /\ jit_debug_descriptor.action_flag_ # JIT_NOACTION =>
        jit_debug_descriptor.action_flag_' # JIT_NOACTION
  /\ jit_debug_descriptor' # jit_debug_descriptor => \E t \in Threads : CodeMutation(t)
\* C18 (stale descriptor after deletion): no step but the linking step of
\* CreateJITCodeEntry and the unlinking step of a deletion writes the descriptor;
\* action_flag_ is JIT_NOACTION only before the first of them; and whenever no call is
\* under way relevant_entry_ designates an allocated entry exactly when action_flag_
\* is JIT_REGISTER_FN (the last change of the code list was a creation, and its entry,
\* the head of the list, is allocated), while with JIT_UNREGISTER_FN it designates
\* the entry the last deletion freed.
C18_StaleDescriptor == [](C18_StateOk) /\ [][C18_StepOk]_vars

\* a deletion is over: relevant_entry_ designates the freed entry, another is listed
C18_Witness ==
  /\ Quiet
  /\ jit_debug_descriptor.action_flag_ = JIT_UNREGISTER_FN
  /\ ~Live(jit_debug_descriptor.relevant_entry_)
  /\ jit_debug_descriptor.first_entry_ # NULL
  /\ DOMAIN g_jit_code_entries # {}

\* ----------------------------------------------------------------------- C19
\* the addresses attached and not detached, by the history of the calls
AttachedAddrs == {a \in CodeAddrs : attachedTo[a] # NULL}

\* C19, what holds in every state
C19_StateOk ==
  misuse = 0 =>
    \A t \in Threads :
      LET entry == frame[t].entry
          code_address == frame[t].addr
      IN /\ DetachDeletes(t, entry) =>
              /\ GetJITCodeEntry(code_address) = entry
              /\ Live(entry) /\ jit_heap[entry].symfile
              /\ jit_heap[entry].ref_count = 0
         /\ (DetachDeletes(t, entry) /\ pc[t] = "Delete_173") =>
              /\ ~Reachable(entry)
              /\ code_address \notin AttachedAddrs
              /\ GetJITCodeEntryMemUsage =
                   SumBytes({e \in EntrySlots : Live(e)} \ {entry})
                     + 2 * SizeofPtr * (Cardinality(AttachedAddrs) + 1)
         /\ (pc[t] = "Dec_195" /\ notified[t] = 1) =>
              /\ GetJITCodeEntry(code_address) = entry
              /\ ~Live(entry)
\* C19, what every step keeps
C19_StepOk ==
  misuse = 0 =>
    /\ \A a \in DOMAIN g_jit_code_entries :
         a \notin DOMAIN g_jit_code_entries' =>
           \E t \in Threads : pc[t] = "Dec_195" /\ frame[t].addr = a /\ pc'[t] = "Ret"
    /\ \A t \in Threads :
         (DetachDeletes(t, frame[t].entry) /\ pc'[t] # pc[t]) =>
            /\ pc[t] = "Delete_159" => pc'[t] = "Delete_173"
            /\ pc[t] = "Delete_173" => pc'[t] = "Delete_174"
            /\ pc[t] = "Delete_174" => pc'[t] = "Dec_195"
\* C19 (ordering inside the final Detach): while callers keep the preconditions, the
\* DeleteJITCodeEntry that DecrementJITCodeEntryRefcount calls when ref_count reaches
\* zero unlinks the entry, calls the breakpoint function and frees the entry, in this
\* order, before the key is erased; all the while the index maps code_address to the
\* entry; when the breakpoint function is called the entry is unlinked and allocated
\* and GetJITCodeEntryMemUsage() counts two pointers for the mapping; and between the
\* free and the erase the index maps code_address to the freed entry.
C19_FinalDetachOrdering == [](C19_StateOk) /\ [][C19_StepOk]_vars

\* the last address of an entry is detached while the other address is attached to
\* another entry: the breakpoint function is about to be called
C19_Witness ==
  \E t \in Threads :
    /\ misuse = 0
    /\ pc[t] = "Delete_173" /\ frame[t].ret = "Dec_195"
    /\ GetJITCodeEntry(frame[t].addr) = frame[t].entry
    /\ Cardinality(DOMAIN g_jit_code_entries) = 2

====
